---- MODULE Spec2Model ----
(* Model of AlphaMaths' src/app.py: the Streamlit button handler that asks a   *)
(* language model for a Lean 4 proof, extracts the fenced code, checks it with *)
(* "lean --run" and retries with the verifier's output as feedback.            *)
(*                                                                             *)
(* Text is a sequence of symbols.  A symbol is one character ("l", " ", ...,   *)
(* and "BT" for the backtick, which TLA+ strings cannot hold) or an upper-case *)
(* token standing for a fixed literal of the program that holds no backtick    *)
(* (for instance "ERR_PROOF" is the literal of line 45).                       *)
EXTENDS Integers, Sequences, FiniteSets, TLC

VARIABLES
    pc,                   \* position of the handler in the script
    math_problem_input,   \* st.text_area value (line 63)
    sidebar,              \* st.sidebar.text_input values (lines 53-54)
    openai_cfg,           \* module globals openai.api_key / openai.api_base
    attempt,              \* line 81
    lean_error_feedback,  \* line 82
    raw_response,         \* response.choices[0].message.content (line 117)
    generated_proof_code, \* line 83
    is_valid,             \* line 84
    lean_output,          \* line 85
    temp_file_path,       \* line 134
    files,                \* temporary files on disk: path -> content
    prompts,              \* prompts submitted to the generator, in order
    history,              \* per Attempt: what the generator and verifier did
    out,                  \* messages rendered through st.*
    status,               \* final report of lines 161-165
    nCalls, nWrites, nRemoves, nVerifies  \* side effects performed so far

vars == <<pc, math_problem_input, sidebar, openai_cfg, attempt, lean_error_feedback,
          raw_response, generated_proof_code, is_valid, lean_output,
          temp_file_path, files, prompts, history, out, status,
          nCalls, nWrites, nRemoves, nVerifies>>

-----------------------------------------------------------------------------
(* Bounds *)

\* longest standard-error text the verifier produces
MaxErrLen == 2
\* longest generator text, counted in segments, fed to the extractor alone
MaxSegs == 6
\* longest proof body, counted in characters, extracted fenced and unfenced
MaxBodyLen == 4

-----------------------------------------------------------------------------
(* Text *)

Min(S) == CHOOSE x \in S : \A y \in S : x <= y

Max(S) == CHOOSE x \in S : \A y \in S : x >= y

\* all texts over alphabet A of length at most n
Strs(A, n) == UNION {[1..k -> A] : k \in 0..n}

RECURSIVE Concat(_)
\* concatenation of a sequence of texts
Concat(ss) == IF ss = <<>> THEN <<>> ELSE Head(ss) \o Concat(Tail(ss))

\* sub occurs in s at 0-based index i
OccursAt(s, sub, i) ==
    /\ i >= 0
    /\ i + Len(sub) <= Len(s)
    /\ SubSeq(s, i + 1, i + Len(sub)) = sub

\* str.rfind(sub, start): highest index
RFind(s, sub, start) ==
    LET hits == {i \in start..Len(s) : OccursAt(s, sub, i)}
    IN  IF hits = {} THEN -1 ELSE Max(hits)

\* str.find(sub, start): lowest index >= start where sub occurs, else -1
Find(s, sub, start) ==
    LET hits == {i \in start..Len(s) : OccursAt(s, sub, i)}
    IN  IF hits = {} THEN -1 ELSE Min(hits)

\* sub in s
Contains(s, sub) == Find(s, sub, 0) # -1

\* s[a:b] for 0 <= a, 0 <= b
Slice(s, a, b) == SubSeq(s, a + 1, IF b > Len(s) THEN Len(s) ELSE b)

Whitespace == {" ", "\n"}

\* str.lstrip() in place of str.strip()
LStrip(s) ==
    LET keep == {i \in 1..Len(s) : s[i] \notin Whitespace}
    IN  IF keep = {} THEN <<>> ELSE SubSeq(s, Min(keep), Len(s))

\* str.strip()
Strip(s) ==
    LET keep == {i \in 1..Len(s) : s[i] \notin Whitespace}
    IN  IF keep = {} THEN <<>> ELSE SubSeq(s, Min(keep), Max(keep))

BT == "BT"

\* the closing marker, three backticks
Fence == <<BT, BT, BT>>

\* the opening marker, three backticks and "lean"
LeanOpen == Fence \o <<"l", "e", "a", "n">>

-----------------------------------------------------------------------------
(* Extraction of the fenced block, lines 119-126 *)

\* the branch of line 124 is taken: both markers found, the slice is used
ExtractFound(g) ==
    /\ Contains(g, LeanOpen)
    /\ Contains(g, Fence)
    /\ LET start_index == Find(g, LeanOpen, 0) + Len(LeanOpen)
           end_index   == Find(g, Fence, start_index)
       IN  start_index # -1 /\ end_index # -1

\* the warning of line 126 is rendered
ExtractWarns(g) ==
    Contains(g, LeanOpen) /\ Contains(g, Fence) /\ ~ExtractFound(g)

\* lines 119-126 without the test of line 123: end_index -1 is used in the slice
ExtractCodeUnchecked(g) ==
    IF Contains(g, LeanOpen) /\ Contains(g, Fence)
    THEN LET start_index == Find(g, LeanOpen, 0) + Len(LeanOpen)
             end_index   == Find(g, Fence, start_index)
         IN  Strip(Slice(g, start_index,
                         IF end_index = -1 THEN Len(g) - 1 ELSE end_index))
    ELSE g

\* value of generated_proof_code after lines 119-126
ExtractCode(g) ==
    IF ExtractFound(g)
    THEN LET start_index == Find(g, LeanOpen, 0) + Len(LeanOpen)
             end_index   == Find(g, Fence, start_index)
         IN  Strip(Slice(g, start_index, end_index))
    ELSE g

-----------------------------------------------------------------------------
(* Prompt, lines 93-104 *)

\* the corrective clause of lines 103-104
FeedbackClause(feedback) ==
    <<"FB_INTRO">> \o Fence \o <<"\n">> \o feedback \o <<"\n">> \o Fence
        \o <<"\n", "FB_ASK">>

\* the prompt without corrective clause, lines 93-100
BasePrompt(problem) ==
    <<"P_INTRO">> \o problem \o <<"\n", "\n", "P_RULES">>

\* lines 102-104 left out: the feedback never reaches the prompt
BuildPromptNoFeedback(problem, feedback) == BasePrompt(problem)

\* the prompt of lines 93-104
BuildPrompt(problem, feedback) ==
    IF feedback # <<>>
    THEN BasePrompt(problem) \o FeedbackClause(feedback)
    ELSE BasePrompt(problem)

-----------------------------------------------------------------------------
(* verify_lean_file, lines 15-47 *)

\* what subprocess.run(["lean", "--run", path], check=True) can do
ToolOutcomes ==
    [kind : {"not_found"}, text : {<<>>}]
    \cup [kind : {"exit_nonzero"}, text : Strs({"e"}, MaxErrLen)]
    \cup [kind : {"exit_zero"}, text : Strs({"o"}, 1)]
    \cup [kind : {"crash"}, text : {<<"EXC">>}]

\* subprocess.run without check=True: a non-zero exit is returned as a success
verify_lean_file_nocheck(exists, tool) ==
    IF ~exists
    THEN [kind |-> "missing", valid |-> FALSE, output |-> <<"ERR_NOFILE">>]
    ELSE CASE tool.kind \in {"exit_zero", "exit_nonzero"} ->
                [kind |-> "valid", valid |-> TRUE, output |-> <<"OK_MSG">>]
           [] tool.kind = "not_found" ->
                [kind |-> "not_found", valid |-> FALSE,
                 output |-> <<"ERR_NOTFOUND">>]
           [] OTHER ->
                [kind |-> "unexpected", valid |-> FALSE,
                 output |-> <<"ERR_UNEXPECTED">> \o tool.text]

\* line 45 returning e.stderr alone, without the message in front
verify_lean_file_bare(exists, tool) ==
    IF ~exists
    THEN [kind |-> "missing", valid |-> FALSE, output |-> <<"ERR_NOFILE">>]
    ELSE CASE tool.kind = "exit_zero" ->
                [kind |-> "valid", valid |-> TRUE,
                 output |-> <<"OK_MSG">> \o tool.text]
           [] tool.kind = "not_found" ->
                [kind |-> "not_found", valid |-> FALSE,
                 output |-> <<"ERR_NOTFOUND">>]
           [] tool.kind = "exit_nonzero" ->
                [kind |-> "failed", valid |-> FALSE, output |-> tool.text]
           [] OTHER ->
                [kind |-> "unexpected", valid |-> FALSE,
                 output |-> <<"ERR_UNEXPECTED">> \o tool.text]

\* the verdict kind, the bool and the text returned; exists is Path.exists()
verify_lean_file(exists, tool) ==
    IF ~exists
    THEN [kind |-> "missing", valid |-> FALSE, output |-> <<"ERR_NOFILE">>]
    ELSE CASE tool.kind = "exit_zero" ->
                [kind |-> "valid", valid |-> TRUE,
                 output |-> <<"OK_MSG">> \o tool.text]
           [] tool.kind = "not_found" ->
                [kind |-> "not_found", valid |-> FALSE,
                 output |-> <<"ERR_NOTFOUND">>]
           [] tool.kind = "exit_nonzero" ->
                [kind |-> "failed", valid |-> FALSE,
                 output |-> <<"ERR_PROOF">> \o tool.text]
           [] OTHER ->
                [kind |-> "unexpected", valid |-> FALSE,
                 output |-> <<"ERR_UNEXPECTED">> \o tool.text]

-----------------------------------------------------------------------------
(* The button handler, lines 70-165 *)

max_attempts == 3

\* texts the user can have typed in the text area
Problems == {<<>>, <<"p">>}

\* values of the API key field of the sidebar
ApiKeys == {<<>>, <<"k">>}

\* what the user of this session can have typed in the sidebar
Sidebars == [openai_api_key : ApiKeys, openai_api_base : {<<"URL">>}]

\* what the user of another session of the same process typed in the sidebar
OtherSidebar == [openai_api_key |-> <<"k2">>, openai_api_base |-> <<"URL2">>]

\* lines 77-78: the values stored in openai.api_key and openai.api_base
ConfigOf(sb) ==
    [api_key  |-> IF sb.openai_api_key # <<>>
                  THEN sb.openai_api_key ELSE <<"ollama">>,
     api_base |-> sb.openai_api_base]

\* texts the generator returns during a run
Responses ==
    { <<"x">>,
      LeanOpen \o <<"\n", "x", "\n">> \o Fence,
      LeanOpen \o <<"\n", "x">>,
      LeanOpen \o <<"x">> \o Fence \o <<" ">> \o LeanOpen \o <<"y">> \o Fence }

\* what openai.chat.completions.create and the read of line 117 can do
GeneratorOutcomes ==
    [kind : {"api_error", "malformed"}, text : {<<>>}]
    \cup [kind : {"ok"}, text : Responses]

\* no subprocess was started
NotRun == [kind |-> "not_run", text |-> <<>>]

\* an Attempt before anything happened in it: gen is the generator outcome and
\* cfg the openai configuration its call used; existed, tool, verdict, output
\* are the inputs and the results of verify_lean_file; raised tells that an
\* except clause ended it; writes, removes, runs count its temporary-file
\* writes, its os.remove calls that deleted the file and its subprocess runs
NewAttempt ==
    [gen |-> "pending", cfg |-> <<>>, verdict |-> "none", output |-> <<>>,
     raised |-> FALSE, existed |-> FALSE, tool |-> NotRun,
     writes |-> 0, removes |-> 0, runs |-> 0]

\* the messages of the two except clauses, lines 152-159
ApiErrorMsgs == <<"error:api", "error:check_key">>

\* the clause of lines 156-159 breaking without a message
SilentMsgs == <<>>

UnexpectedMsgs == <<"error:unexpected", "warning:install_lean">>

\* the except clauses with continue in place of break
ContinueTarget == "loop"

\* break, lines 155 and 159: control leaves the loop for line 161
BreakTarget == "report"

\* line 71 with the mistake of accepting any input
StartAcceptsAny(problem) == TRUE

\* line 71: the else branch is taken
StartAccepts(problem) == problem # <<>>

\* line 145 appending to the stored feedback
AppendFeedback(old, new) == old \o new

\* line 145: the stored feedback is replaced
StoreFeedback(old, new) == new

\* line 87 with the budget one too large
LoopContinuesOneMore(a, v) == a <= max_attempts /\ ~v

\* line 87 with the budget one too small
LoopContinuesOneLess(a, v) == a + 1 < max_attempts /\ ~v

\* line 87 without the test of is_valid
LoopContinuesIgnoringValid(a, v) == a < max_attempts

\* line 87: the loop guard
LoopContinues(a, v) == a < max_attempts /\ ~v

Init ==
    /\ pc = "idle"
    /\ math_problem_input \in Problems
    /\ sidebar \in Sidebars
    /\ openai_cfg = [api_key |-> <<"UNSET">>, api_base |-> <<"UNSET">>]
    /\ attempt = 0
    /\ lean_error_feedback = <<>>
    /\ raw_response = <<>>
    /\ generated_proof_code = <<>>
    /\ is_valid = FALSE
    /\ lean_output = <<>>
    /\ temp_file_path = 0
    /\ files = <<>>
    /\ prompts = <<>>
    /\ history = <<>>
    /\ out = <<>>
    /\ status = "none"
    /\ nCalls = 0
    /\ nWrites = 0
    /\ nRemoves = 0
    /\ nVerifies = 0

\* lines 70-85: the button is pressed
Start ==
    /\ pc = "idle"
    /\  IF StartAccepts(math_problem_input)
        THEN /\ out' = Append(out, "info:started")
             /\ openai_cfg' = ConfigOf(sidebar)
             /\ attempt' = 0
             /\ lean_error_feedback' = <<>>
             /\ generated_proof_code' = <<>>
             /\ is_valid' = FALSE
             /\ lean_output' = <<>>
             /\ pc' = "loop"
        ELSE /\ out' = Append(out, "error:describe_problem")
             /\ pc' = "done"
             /\ UNCHANGED <<openai_cfg, attempt, lean_error_feedback,
                            generated_proof_code, is_valid, lean_output>>
    /\ UNCHANGED <<math_problem_input, sidebar, raw_response, temp_file_path, files,
                   prompts, history, status, nCalls, nWrites, nRemoves, nVerifies>>

\* lines 87-89: the loop guard, the increment and the heading
LoopHead ==
    /\ pc = "loop"
    /\ IF LoopContinues(attempt, is_valid)
       THEN /\ attempt' = attempt + 1
            /\ history' = Append(history, NewAttempt)
            /\ out' = Append(out, "subheader:attempt")
            /\ pc' = "generate"
       ELSE /\ pc' = "report"
            /\ UNCHANGED <<attempt, history, out>>
    /\ UNCHANGED <<math_problem_input, sidebar, openai_cfg, lean_error_feedback,
                   raw_response, generated_proof_code, is_valid, lean_output,
                   temp_file_path, files, prompts, status,
                   nCalls, nWrites, nRemoves, nVerifies>>

\* lines 93-117 and the handlers of lines 152-159
Generate ==
    /\ pc = "generate"
    /\ prompts' = Append(prompts, BuildPrompt(math_problem_input, lean_error_feedback))
    /\ nCalls' = nCalls + 1
    /\ \E g \in GeneratorOutcomes :
        /\ history' = [history EXCEPT ![attempt].gen = g.kind,
                                      ![attempt].cfg = openai_cfg,
                                      ![attempt].raised = (g.kind # "ok")]
        /\ CASE g.kind = "api_error" ->
                  /\ out' = out \o ApiErrorMsgs
                  /\ pc' = BreakTarget
                  /\ UNCHANGED <<raw_response, generated_proof_code>>
             [] g.kind = "malformed" ->
                  /\ out' = out \o UnexpectedMsgs
                  /\ pc' = BreakTarget
                  /\ UNCHANGED <<raw_response, generated_proof_code>>
             [] OTHER ->
                  /\ raw_response' = g.text
                  /\ generated_proof_code' = g.text
                  /\ pc' = "extract"
                  /\ UNCHANGED out
    /\ UNCHANGED <<math_problem_input, sidebar, openai_cfg, attempt, lean_error_feedback,
                   is_valid, lean_output, temp_file_path, files, status,
                   nWrites, nRemoves, nVerifies>>

\* lines 119-129
Extract ==
    /\ pc = "extract"
    /\ generated_proof_code' = ExtractCode(generated_proof_code)
    /\ out' = out
              \o (IF ExtractWarns(generated_proof_code)
                  THEN <<"warning:bad_fences">> ELSE <<>>)
              \o <<"subheader:proof", "code:proof">>
    /\ pc' = "write"
    /\ UNCHANGED <<math_problem_input, sidebar, openai_cfg, attempt, lean_error_feedback,
                   raw_response, is_valid, lean_output, temp_file_path, files,
                   prompts, history, status, nCalls, nWrites, nRemoves, nVerifies>>

\* outcomes of tempfile.NamedTemporaryFile(delete=False) and of write
WriteOutcomes == {"ok", "create_fails", "write_fails"}

\* lines 132-136; the new file is named after the attempt
WriteTemp ==
    /\ pc = "write"
    /\ \E w \in WriteOutcomes :
        CASE w = "ok" ->
               /\ files' = (attempt :> generated_proof_code) @@ files
               /\ temp_file_path' = attempt
               /\ nWrites' = nWrites + 1
               /\ out' = Append(out, "info:validating")
               /\ pc' = "verify"
               /\ history' = [history EXCEPT ![attempt].writes = @ + 1]
          [] w = "write_fails" ->
               /\ files' = (attempt :> <<>>) @@ files
               /\ nWrites' = nWrites + 1
               /\ history' = [history EXCEPT ![attempt].raised = TRUE,
                                             ![attempt].writes = @ + 1]
               /\ out' = out \o UnexpectedMsgs
               /\ pc' = BreakTarget
               /\ UNCHANGED temp_file_path
          [] OTHER ->
               /\ history' = [history EXCEPT ![attempt].raised = TRUE]
               /\ out' = out \o UnexpectedMsgs
               /\ pc' = BreakTarget
               /\ UNCHANGED <<files, temp_file_path, nWrites>>
    /\ UNCHANGED <<math_problem_input, sidebar, openai_cfg, attempt, lean_error_feedback,
                   raw_response, generated_proof_code, is_valid, lean_output,
                   prompts, status, nCalls, nRemoves, nVerifies>>

\* the files without the one at path
Without(fs, path) == [q \in DOMAIN fs \ {path} |-> fs[q]]

\* another process deletes the temporary file before lean reads it
ExternalRemove ==
    /\ pc = "verify"
    /\ temp_file_path \in DOMAIN files
    /\ files' = Without(files, temp_file_path)
    /\ UNCHANGED <<pc, math_problem_input, sidebar, openai_cfg, attempt,
                   lean_error_feedback, raw_response, generated_proof_code,
                   is_valid, lean_output, temp_file_path, prompts, history,
                   out, status, nCalls, nWrites, nRemoves, nVerifies>>

\* lines 137-138
Verify ==
    /\ pc = "verify"
    /\ \E tool \in ToolOutcomes :
        LET exists == temp_file_path \in DOMAIN files
            r == verify_lean_file(exists, tool)
        IN  /\ is_valid' = r.valid
            /\ lean_output' = r.output
            /\ history' = [history EXCEPT
                    ![attempt].verdict = r.kind,
                    ![attempt].output = r.output,
                    ![attempt].existed = exists,
                    ![attempt].tool = IF exists THEN tool ELSE NotRun,
                    ![attempt].runs = IF exists THEN @ + 1 ELSE @]
            /\ nVerifies' = IF exists THEN nVerifies + 1 ELSE nVerifies
    /\ pc' = "render"
    /\ UNCHANGED <<math_problem_input, sidebar, openai_cfg, attempt, lean_error_feedback,
                   raw_response, generated_proof_code, temp_file_path, files,
                   prompts, out, status, nCalls, nWrites, nRemoves>>

\* lines 140-146; st.code of line 146 may raise
RenderVerdict ==
    /\ pc = "render"
    /\ lean_error_feedback' = IF is_valid THEN lean_error_feedback
                            ELSE StoreFeedback(lean_error_feedback, lean_output)
    /\ \E raises \in BOOLEAN :
        IF raises
        THEN /\ history' = [history EXCEPT ![attempt].raised = TRUE]
             /\ out' = out
                  \o <<"subheader:result",
                       IF is_valid THEN "success:valid" ELSE "error:invalid">>
                  \o UnexpectedMsgs
             /\ pc' = BreakTarget
        ELSE /\ out' = out
                  \o <<"subheader:result",
                       IF is_valid THEN "success:valid" ELSE "error:invalid",
                       "code:output">>
             /\ pc' = "remove"
             /\ UNCHANGED history
    /\ UNCHANGED <<math_problem_input, sidebar, openai_cfg, attempt, raw_response,
                   generated_proof_code, is_valid, lean_output, temp_file_path,
                   files, prompts, status, nCalls, nWrites, nRemoves, nVerifies>>

\* lines 149-150; os.remove raises when the file is gone or cannot be deleted
RemoveTemp ==
    /\ pc = "remove"
    /\ \E denied \in BOOLEAN :
        IF temp_file_path \in DOMAIN files /\ ~denied
        THEN /\ files' = Without(files, temp_file_path)
             /\ nRemoves' = nRemoves + 1
             /\ out' = Append(out, "success:cleaned")
             /\ pc' = "loop"
             /\ history' = [history EXCEPT ![attempt].removes = @ + 1]
        ELSE /\ history' = [history EXCEPT ![attempt].raised = TRUE]
             /\ out' = out \o UnexpectedMsgs
             /\ pc' = BreakTarget
             /\ UNCHANGED <<files, nRemoves>>
    /\ UNCHANGED <<math_problem_input, sidebar, openai_cfg, attempt, lean_error_feedback,
                   raw_response, generated_proof_code, is_valid, lean_output,
                   temp_file_path, prompts, status, nCalls, nWrites, nVerifies>>

\* lines 161-165
Report ==
    /\ pc = "report"
    /\ IF is_valid
       THEN /\ out' = Append(out, "success:final_valid")
            /\ status' = "Succeeded"
       ELSE /\ out' = out \o <<"error:no_valid_proof", "warning:review">>
            /\ status' = "Failed"
    /\ pc' = "done"
    /\ UNCHANGED <<math_problem_input, sidebar, openai_cfg, attempt, lean_error_feedback,
                   raw_response, generated_proof_code, is_valid, lean_output,
                   temp_file_path, files, prompts, history,
                   nCalls, nWrites, nRemoves, nVerifies>>

Next ==
    \/ Start
    \/ LoopHead
    \/ Generate
    \/ Extract
    \/ WriteTemp
    \/ ExternalRemove
    \/ Verify
    \/ RenderVerdict
    \/ RemoveTemp
    \/ Report

Spec == Init /\ [][Next]_vars

\* lines 77-78 run by the script thread of another session of the process
OtherSessionStart ==
    /\ openai_cfg # ConfigOf(OtherSidebar)
    /\ openai_cfg' = ConfigOf(OtherSidebar)
    /\ UNCHANGED <<pc, math_problem_input, sidebar, attempt,
                   lean_error_feedback, raw_response, generated_proof_code,
                   is_valid, lean_output, temp_file_path, files, prompts,
                   history, out, status, nCalls, nWrites, nRemoves, nVerifies>>

NextTwoSessions ==
    \/ Start
    \/ LoopHead
    \/ Generate
    \/ Extract
    \/ WriteTemp
    \/ ExternalRemove
    \/ Verify
    \/ RenderVerdict
    \/ RemoveTemp
    \/ Report
    \/ OtherSessionStart

\* this session's handler with another session starting a run at any moment
TwoSessionSpec == Init /\ [][NextTwoSessions]_vars

\* every call returns or raises, so the handler always takes its next step
FairSpec == Spec /\ WF_vars(Next)

-----------------------------------------------------------------------------
(* The extraction alone, on every generator text up to MaxSegs segments *)

Segments == {LeanOpen, Fence, <<" ">>, <<"x">>, <<"\n", "y", " ">>}

RawTexts == {Concat(ss) : ss \in Strs(Segments, MaxSegs)}

\* the handler after line 117 of its first attempt, whatever the generator wrote
InitExtract ==
    /\ pc = "extract"
    /\ math_problem_input = <<"p">>
    /\ sidebar = [openai_api_key |-> <<>>, openai_api_base |-> <<"URL">>]
    /\ openai_cfg = ConfigOf(sidebar)
    /\ attempt = 1
    /\ lean_error_feedback = <<>>
    /\ raw_response \in RawTexts
    /\ generated_proof_code = raw_response
    /\ is_valid = FALSE
    /\ lean_output = <<>>
    /\ temp_file_path = 0
    /\ files = <<>>
    /\ prompts = <<BuildPrompt(<<"p">>, <<>>)>>
    /\ history = <<[NewAttempt EXCEPT !.gen = "ok"]>>
    /\ out = <<"info:started", "subheader:attempt">>
    /\ status = "none"
    /\ nCalls = 1
    /\ nWrites = 0
    /\ nRemoves = 0
    /\ nVerifies = 0

NextExtract == Extract

ExtractSpec == InitExtract /\ [][NextExtract]_vars

-----------------------------------------------------------------------------
(* The extraction of a proof body, given fenced and given as it is *)

Bodies == Strs({"x", " ", "\n", BT}, MaxBodyLen)

\* the body inside a lean block, markers on lines of their own
Wrap(body) == LeanOpen \o <<"\n">> \o body \o <<"\n">> \o Fence

\* the handler after line 117 of its first attempt; the generator wrote a
\* proof body, fenced or not
InitWrap ==
    /\ pc = "extract"
    /\ math_problem_input = <<"p">>
    /\ sidebar = [openai_api_key |-> <<>>, openai_api_base |-> <<"URL">>]
    /\ openai_cfg = ConfigOf(sidebar)
    /\ attempt = 1
    /\ lean_error_feedback = <<>>
    /\ raw_response \in Bodies \cup {Wrap(b) : b \in Bodies}
    /\ generated_proof_code = raw_response
    /\ is_valid = FALSE
    /\ lean_output = <<>>
    /\ temp_file_path = 0
    /\ files = <<>>
    /\ prompts = <<BuildPrompt(<<"p">>, <<>>)>>
    /\ history = <<[NewAttempt EXCEPT !.gen = "ok"]>>
    /\ out = <<"info:started", "subheader:attempt">>
    /\ status = "none"
    /\ nCalls = 1
    /\ nWrites = 0
    /\ nRemoves = 0
    /\ nVerifies = 0

NextWrap == Extract

WrapSpec == InitWrap /\ [][NextWrap]_vars

-----------------------------------------------------------------------------
(* Properties *)

Attempts == 1..Len(history)

Terminal == pc = "done"

\* Attempt k ran to its end with the verdict "the tool exited non-zero"
CycleFailedVerification(k) ==
    /\ history[k].gen = "ok"
    /\ history[k].verdict = "failed"
    /\ ~history[k].raised

\* C1: a run in which every cycle completes with the generator answering and
\* the tool exiting non-zero makes exactly max_attempts attempts, numbered
\* 1, 2, ... in order, and reports Failed.
C1_ExhaustedRunFails ==
    /\ [](Terminal /\ history # <<>>
            /\ (\A k \in Attempts : CycleFailedVerification(k))
          => /\ Len(history) = max_attempts
             /\ attempt = max_attempts
             /\ nCalls = max_attempts
             /\ status = "Failed")
    /\ [][/\ attempt' \in {attempt, attempt + 1}
          /\ Len(history') = attempt']_vars

C1_Witness ==
    /\ Terminal
    /\ Len(history) = max_attempts
    /\ \A k \in Attempts : CycleFailedVerification(k)
    /\ status = "Failed"

\* C2: once an attempt k has a valid verdict, it is the first and the last
\* attempt with a verdict of that kind, no attempt k+1 is ever started, and the
\* run goes on to report Succeeded.
C2_FirstValidEndsRun ==
    /\ [](\A k \in Attempts :
            history[k].verdict = "valid"
            => /\ Len(history) = k
               /\ attempt = k
               /\ nCalls = k
               /\ \A j \in 1..(k - 1) : history[j].verdict # "valid"
               /\ (Terminal => status = "Succeeded"))
    /\ ((\E k \in Attempts : history[k].verdict = "valid")
            ~> (Terminal /\ status = "Succeeded"))

C2_Witness ==
    /\ Terminal
    /\ status = "Succeeded"
    /\ Len(history) = 3
    /\ CycleFailedVerification(1)
    /\ CycleFailedVerification(2)
    /\ history[3].verdict = "valid"

\* C3 (as claimed): when lean is not found in the first attempt, the run ends
\* Failed after exactly one attempt and one generation request.
C3_ToolNotFoundAborts ==
    Terminal /\ history # <<>> /\ history[1].verdict = "not_found"
    => /\ Len(history) = 1
       /\ nCalls = 1
       /\ status = "Failed"

\* C4 (as claimed): after a verifier invocation that failed unexpectedly no
\* further attempt is created.
C4_UnexpectedErrorAborts ==
    \A k \in Attempts : history[k].verdict = "unexpected" => Len(history) = k

\* C5: when the generator call of attempt k fails, attempt k is the last one,
\* it has no verdict, it writes no temporary file and the run reports Failed.
C5_GeneratorErrorAborts ==
    \A k \in Attempts :
        history[k].gen \in {"api_error", "malformed"}
        => /\ Len(history) = k
           /\ attempt = k
           /\ history[k].verdict = "none"
           /\ k \notin DOMAIN files
           /\ nWrites <= k - 1
           /\ nVerifies <= k - 1
           /\ pc \in {"report", "done"}
           /\ (Terminal => status = "Failed")

C5_Witness ==
    /\ Terminal
    /\ Len(history) = 2
    /\ history[2].gen = "api_error"
    /\ status = "Failed"

\* C6: the prompt of attempt k+1 contains, symbol for symbol, the text that
\* verify_lean_file returned for attempt k when that verdict was not valid.
C6_FeedbackPropagation ==
    \A k \in 1..(Len(prompts) - 1) :
        history[k].verdict \notin {"none", "valid"}
        => /\ history[k].output # <<>>
           /\ Contains(prompts[k + 1], history[k].output)

C6_Witness ==
    /\ Len(prompts) = 3
    /\ history[2].verdict = "failed"
    /\ history[2].output = <<"ERR_PROOF", "e", "e">>
    /\ Contains(prompts[3], <<"ERR_PROOF", "e", "e">>)

\* C7 (as claimed): when the run has ended, no temporary file written by it
\* is left on disk.
C7_NoTempFileLeft == Terminal => DOMAIN files = {}

\* C8: with an empty problem statement the handler only renders the input
\* error: no attempt, no generator call, no temporary file, no verifier run.
C8_EmptyInputRejected ==
    math_problem_input = <<>>
    => /\ attempt = 0
       /\ history = <<>>
       /\ prompts = <<>>
       /\ nCalls = 0
       /\ nWrites = 0
       /\ nVerifies = 0
       /\ DOMAIN files = {}
       /\ pc \in {"idle", "done"}
       /\ (Terminal => out = <<"error:describe_problem">> /\ status = "none")

C8_Witness ==
    /\ math_problem_input = <<>>
    /\ Terminal
    /\ out = <<"error:describe_problem">>

\* C9: a run with a non-empty problem statement ends with one report,
\* Succeeded or Failed, that never changes; no attempt is created after it,
\* and there are never more than max_attempts attempts.
C9_RunTerminates ==
    /\ (math_problem_input # <<>>
            ~> (Terminal /\ status \in {"Succeeded", "Failed"}))
    /\ [](Len(history) <= max_attempts /\ attempt <= max_attempts
            /\ nCalls <= max_attempts)
    /\ [](status # "none" => Terminal)
    /\ [][status # "none"
            => status' = status /\ history' = history /\ attempt' = attempt]_vars

C9_Witness ==
    /\ Terminal
    /\ status = "Failed"
    /\ Len(history) = max_attempts

\* the first opening marker of g starts at index i
IsFirstOpen(g, i) ==
    /\ OccursAt(g, LeanOpen, i)
    /\ \A h \in 0..(i - 1) : ~OccursAt(g, LeanOpen, h)

\* the first closing marker after the opening marker at i starts at index j
IsFirstCloseAfter(g, i, j) ==
    /\ j >= i + Len(LeanOpen)
    /\ OccursAt(g, Fence, j)
    /\ \A h \in (i + Len(LeanOpen))..(j - 1) : ~OccursAt(g, Fence, h)

\* t is s without its leading and trailing whitespace
IsTrimOf(t, s) ==
    \E a, b \in 0..Len(s) :
        /\ a + b <= Len(s)
        /\ t = SubSeq(s, a + 1, Len(s) - b)
        /\ \A h \in 1..a : s[h] \in Whitespace
        /\ \A h \in (Len(s) - b + 1)..Len(s) : s[h] \in Whitespace
        /\ (t # <<>> => t[1] \notin Whitespace /\ t[Len(t)] \notin Whitespace)

\* C10: when the generator text has an opening marker and a closing marker
\* after it, the extracted text is the text between the first opening marker
\* and the first closing marker after it, trimmed; what follows that closing
\* marker changes nothing.
C10_ExtractFirstMatch ==
    pc = "write"
    => \A i, j \in 0..Len(raw_response) :
        IsFirstOpen(raw_response, i) /\ IsFirstCloseAfter(raw_response, i, j)
        => /\ IsTrimOf(generated_proof_code,
                       SubSeq(raw_response, i + Len(LeanOpen) + 1, j))
           /\ \A n \in (j + Len(Fence))..Len(raw_response) :
                ExtractCode(SubSeq(raw_response, 1, n)) = generated_proof_code

C10_Witness ==
    /\ pc = "write"
    /\ raw_response = LeanOpen \o <<"\n", "y", " ">> \o Fence
                        \o LeanOpen \o <<"x">> \o Fence
    /\ generated_proof_code = <<"y">>

\* g has an opening marker with a closing marker after it
HasClosedBlock(g) ==
    \E i, j \in 0..Len(g) :
        /\ OccursAt(g, LeanOpen, i)
        /\ OccursAt(g, Fence, j)
        /\ j >= i + Len(LeanOpen)

\* C11: when the generator text has no opening marker, or none with a closing
\* marker after it, the text kept, and written to the temporary file that lean
\* reads, is the generator text unchanged; the extraction step, warning or
\* not, always goes on to the write of the temporary file.
C11_ExtractFallback ==
    /\ [](pc \in {"write", "verify", "render", "remove"}
            /\ ~HasClosedBlock(raw_response)
          => /\ generated_proof_code = raw_response
             /\ (pc # "write" /\ attempt \in DOMAIN files
                    => files[attempt] = raw_response))
    /\ [][pc = "extract" => pc' = "write"]_vars

C11_Witness ==
    /\ pc = "render"
    /\ raw_response = LeanOpen \o <<"\n", "x">>
    /\ files[attempt] = raw_response
    /\ history[attempt].verdict = "failed"
    /\ \E i \in 1..Len(out) : out[i] = "warning:bad_fences"

\* C12 (as claimed): for every proof body, the text extracted from the fenced
\* body is the text extracted from the body given without fence.
C12_FencedEqualsUnfenced ==
    pc = "write"
    => \A b \in Bodies :
        raw_response = Wrap(b) => generated_proof_code = ExtractCode(b)

\* the body has no whitespace at either end and holds no closing marker
IsCanonicalBody(b) ==
    /\ b # <<>> => b[1] \notin Whitespace /\ b[Len(b)] \notin Whitespace
    /\ \A i \in 0..Len(b) : ~OccursAt(b, Fence, i)

\* C12 (amended): for every proof body without whitespace at its ends and
\* without three backticks in a row, the text extracted from the fenced body
\* and the text extracted from the body given without fence are both the body.
C12_CanonicalBodyExtractsSame ==
    pc = "write"
    => \A b \in Bodies :
        IsCanonicalBody(b)
        => /\ raw_response = Wrap(b) => generated_proof_code = b
           /\ raw_response = b => generated_proof_code = b

C12_Witness ==
    /\ pc = "write"
    /\ raw_response = Wrap(<<"x", " ", BT, BT>>)
    /\ generated_proof_code = <<"x", " ", BT, BT>>

\* one of the except clauses of lines 152-159 rendered its error
AbortReported(o) ==
    \E i \in 1..Len(o) : o[i] \in {"error:api", "error:unexpected"}

\* the report of lines 164-165 closes the output
FailureReported(o) ==
    /\ Len(o) >= 2
    /\ SubSeq(o, Len(o) - 1, Len(o)) = <<"error:no_valid_proof", "warning:review">>

\* C13: a run that ends Failed renders the failure report last, and its output
\* holds the error of an except clause exactly when the run was cut short by
\* an exception; without it the run used all max_attempts attempts, each with
\* a verdict that was not valid.
C13_FailureCauseVisible ==
    Terminal /\ status = "Failed"
    => /\ FailureReported(out)
       /\ AbortReported(out) <=> history[Len(history)].raised
       /\ ~AbortReported(out)
            => /\ Len(history) = max_attempts
               /\ \A k \in Attempts : history[k].verdict \notin {"none", "valid"}

C13_Witness ==
    /\ Terminal
    /\ status = "Failed"
    /\ ~AbortReported(out)
    /\ FailureReported(out)
    /\ \A k \in Attempts : CycleFailedVerification(k)

\* C14 (as claimed): every generator call of the run uses the configuration
\* made of the sidebar values the run was started with.
C14_CallsUseOwnConfig ==
    \A k \in Attempts :
        history[k].gen # "pending" => history[k].cfg = ConfigOf(sidebar)

\* C15: the prompt of attempt k+1 is the base prompt followed by the
\* corrective clause built from the output of attempt k alone; the output of an
\* earlier attempt j is in that prompt only when it is inside the output of
\* attempt k.
C15_OnlyPriorDiagnostic ==
    \A k \in 1..(Len(prompts) - 1) :
        /\ prompts[k + 1] = BasePrompt(math_problem_input)
                                \o FeedbackClause(history[k].output)
        /\ \A j \in 1..(k - 1) :
            Contains(prompts[k + 1], history[j].output)
            => Contains(history[k].output, history[j].output)

C15_Witness ==
    /\ Len(prompts) = 3
    /\ history[1].output = <<"ERR_PROOF", "e", "e">>
    /\ history[2].output = <<"ERR_PROOF", "e">>
    /\ ~Contains(prompts[3], history[1].output)
    /\ Contains(prompts[3], history[2].output)

\* C16: verify_lean_file returns True exactly when the file existed and lean
\* was run and exited with code zero; the text returned is then the success
\* message followed by the standard output, and after a non-zero exit it is the
\* failure message followed by the standard error.  The handler's is_valid and
\* lean_output are the two values returned.
C16_VerifyVerdict ==
    \A k \in Attempts :
        history[k].verdict # "none"
        => /\ history[k].verdict = "valid"
                <=> (history[k].existed /\ history[k].tool.kind = "exit_zero")
           /\ history[k].verdict = "valid"
                => history[k].output = <<"OK_MSG">> \o history[k].tool.text
           /\ history[k].existed /\ history[k].tool.kind = "exit_nonzero"
                => /\ history[k].verdict = "failed"
                   /\ history[k].output = <<"ERR_PROOF">> \o history[k].tool.text
           /\ k = attempt /\ pc = "render"
                => /\ is_valid = (history[k].verdict = "valid")
                   /\ lean_output = history[k].output

C16_Witness ==
    /\ Len(history) = 2
    /\ history[1].tool = [kind |-> "exit_nonzero", text |-> <<"e", "e">>]
    /\ history[1].output = <<"ERR_PROOF", "e", "e">>
    /\ history[2].tool = [kind |-> "exit_zero", text |-> <<"o">>]
    /\ history[2].output = <<"OK_MSG", "o">>
    /\ pc = "render"
    /\ is_valid

\* Attempt k is over: a later attempt exists or the run has ended
AttemptOver(k) == k < Len(history) \/ Terminal

\* C17 (as claimed): outside an attempt the generator was called once per
\* attempt, and every attempt that is over and got a verdict wrote one
\* temporary file, deleted it once and ran one subprocess.
C17_SideEffectsPerAttempt ==
    /\ pc \in {"loop", "report", "done"} => nCalls = Len(history)
    /\ \A k \in Attempts :
        AttemptOver(k) /\ history[k].verdict # "none"
        => /\ history[k].writes = 1
           /\ history[k].removes = 1
           /\ history[k].runs = 1

\* the corrective clause of lines 103-104 is in the prompt
HasCorrectiveClause(prompt) == Contains(prompt, <<"FB_INTRO">>)

\* C18: the prompt of attempt k holds the corrective clause exactly when
\* k >= 2; every verdict that is not valid comes with a non-empty text.
C18_ClauseFromSecondAttempt ==
    /\ \A k \in 1..Len(prompts) : HasCorrectiveClause(prompts[k]) <=> k >= 2
    /\ \A k \in Attempts :
        history[k].verdict \notin {"none", "valid"} => history[k].output # <<>>

C18_Witness ==
    /\ Len(prompts) = 2
    /\ history[1].tool = [kind |-> "exit_nonzero", text |-> <<>>]
    /\ ~HasCorrectiveClause(prompts[1])
    /\ HasCorrectiveClause(prompts[2])

\* C19: the run reports Succeeded exactly when its last attempt has a valid
\* verdict; when an exception followed that verdict the output holds the
\* unexpected-error message and still ends with the success report; a run cut
\* short by an exception without valid verdict reports Failed.
C19_StatusFollowsLastVerdict ==
    Terminal /\ history # <<>>
    => /\ status = "Succeeded" <=> history[Len(history)].verdict = "valid"
       /\ status \in {"Succeeded", "Failed"}
       /\ history[Len(history)].verdict = "valid" /\ history[Len(history)].raised
            => /\ \E i \in 1..Len(out) : out[i] = "error:unexpected"
               /\ out[Len(out)] = "success:final_valid"
       /\ history[Len(history)].verdict # "valid" /\ history[Len(history)].raised
            => status = "Failed" /\ FailureReported(out)

C19_Witness ==
    /\ Terminal
    /\ status = "Succeeded"
    /\ history[Len(history)].verdict = "valid"
    /\ history[Len(history)].raised
    /\ \E i \in 1..Len(out) : out[i] = "error:unexpected"

====
